---- MODULE Spec2Model ----
(***************************************************************************)
(* hrtracker (src/main.rs): recurring "schedules" persisted one per file.  *)
(*                                                                         *)
(* Representation choices of this model:                                   *)
(*  - a file is a sequence of cells; the 8 identifier bytes are 8 cells   *)
(*    and every primitive integer written by the `decent` encoder is one  *)
(*    cell (the primitive packing itself belongs to that library);        *)
(*  - TLC integers are 32 bits wide, so the sub-second resolution and the *)
(*    width of the i64 nanosecond count are scaled down (NanosPerMilli,   *)
(*    MillisPerSec, I64Bits); seconds, minutes, hours, days and the       *)
(*    calendar keep their real sizes;                                     *)
(*  - chrono's NaiveDate is (year, ordinal), NaiveTime is (secs, frac)    *)
(*    where frac >= NANOS_PER_SEC is chrono's leap-second representation, *)
(*    TimeDelta is (secs, nanos) with 0 <= nanos < NANOS_PER_SEC.         *)
(***************************************************************************)
EXTENDS Integers, Sequences, FiniteSets, TLC

VARIABLES
    input,    \* parse_timedelta: the argument string (a sequence of characters)
    parsed,   \* parse_timedelta: its result, or NotRun
    cin,      \* codec functions: the argument of the call
    cout,     \* codec functions: the result of the call, or NotRun
    files,    \* ~/.hrtracker/: name -> file content (sequence of cells) or NoFile
    pc,       \* per invocation slot: "idle" or "step_opened"
    local,    \* per invocation slot: the Step action's `schedule` and its name
    ret,      \* outcome of the action that ran last
    origin,   \* per file: how New created it and how many Steps followed
    writes,   \* per file: number of completed saves
    done,     \* per invocation slot: its last successful Step
    budget    \* saves so far, whether a write has failed, and the cap on saves

vars == <<input, parsed, cin, cout, files, pc, local, ret, origin, writes, done, budget>>

NotRun == [run |-> FALSE]

----------------------------------------------------------------------------
(* Bounds and constants *)

NanosPerMilli == 2
MillisPerSec == 2
I64Bits == 20
MaxFields == 4
MaxSaves == 3
MaxSavesConc == 2

NANOS_PER_SEC == NanosPerMilli * MillisPerSec
I64_MAX == 2 ^ (I64Bits - 1) - 1
I64_MIN == - I64_MAX - 1
I32_MAX == 2147483647
SECS_PER_MINUTE == 60
SECS_PER_HOUR == 3600
SECS_PER_DAY == 86400
DAYS_PER_400Y == 146097
EPOCH_CE_DAYS == 719163
MIN_YEAR == -262143
MAX_YEAR == 262142

LATEST == <<0, 0, 2>>
SINCE_ID == <<0, 0, 2>>
\* b"regular "
BYTES == <<114, 101, 103, 117, 108, 97, 114, 32>>

Ok(v) == [ok |-> TRUE, val |-> v]
Err(k) == [ok |-> FALSE, kind |-> k]
Some(v) == [some |-> TRUE, val |-> v]
None == [some |-> FALSE]

\* Version's derived ordering: lexicographic on the three components.
VersionGE(a, b) ==
    \/ a[1] > b[1]
    \/ a[1] = b[1] /\ a[2] > b[2]
    \/ a[1] = b[1] /\ a[2] = b[2] /\ a[3] >= b[3]

----------------------------------------------------------------------------
(* chrono: calendar dates *)

IsLeapYear(y) == y % 4 = 0 /\ (y % 100 # 0 \/ y % 400 = 0)
DaysInYear(y) == IF IsLeapYear(y) THEN 366 ELSE 365

\* NaiveDate::num_days_from_ce
num_days_from_ce(date) ==
    LET y0 == date.year - 1
        excess == IF y0 < 0 THEN 1 + ((- y0) \div 400) ELSE 0
        year == y0 + excess * 400
        div_100 == year \div 100
    IN  (- excess * DAYS_PER_400Y)
        + ((year * 1461) \div 4) - div_100 + (div_100 \div 4) + date.ordinal

\* chrono's YEAR_DELTAS table: leap days in the first i years of a 400-year cycle
YEAR_DELTAS(i) == IF i = 0 THEN 0 ELSE 1 + ((i - 1) \div 4) - ((i - 1) \div 100)

cycle_to_yo(cycle) ==
    LET ym == cycle \div 365
        o0 == cycle % 365
        delta == YEAR_DELTAS(ym)
    IN  IF o0 < delta
        THEN [year |-> ym - 1, ordinal |-> o0 + 365 - YEAR_DELTAS(ym - 1) + 1]
        ELSE [year |-> ym, ordinal |-> o0 - delta + 1]

\* NaiveDate::from_num_days_from_ce_opt
from_num_days_from_ce_opt(days) ==
    IF days > I32_MAX - 365 THEN None
    ELSE LET d == days + 365
             yo == cycle_to_yo(d % DAYS_PER_400Y)
             year == (d \div DAYS_PER_400Y) * 400 + yo.year
         IN  IF year < MIN_YEAR \/ year > MAX_YEAR THEN None
             ELSE Some([year |-> year, ordinal |-> yo.ordinal])

\* NaiveDate::to_epoch_days
to_epoch_days(date) == num_days_from_ce(date) - EPOCH_CE_DAYS

\* NaiveDate::from_epoch_days
from_epoch_days(days) ==
    IF days > I32_MAX - EPOCH_CE_DAYS THEN None
    ELSE from_num_days_from_ce_opt(days + EPOCH_CE_DAYS)

\* NaiveTime::from_num_seconds_from_midnight_opt.  A cell below 0 stands for a
\* u32 in the upper half of its range, which is above every limit tested here.
from_num_seconds_from_midnight_opt(secs, nano) ==
    IF \/ secs < 0 \/ secs >= SECS_PER_DAY
       \/ nano < 0 \/ nano >= 2 * NANOS_PER_SEC
       \/ (nano >= NANOS_PER_SEC /\ secs % SECS_PER_MINUTE # SECS_PER_MINUTE - 1)
    THEN None
    ELSE Some([secs |-> secs, frac |-> nano])

\* NaiveDateTime::new + DateTime::from_naive_utc_and_offset
DateTime(date, time) == [date |-> date, secs |-> time.secs, frac |-> time.frac]

----------------------------------------------------------------------------
(* chrono: TimeDelta *)

TimeDelta_zero == [secs |-> 0, nanos |-> 0]
TimeDelta_seconds(s) == [secs |-> s, nanos |-> 0]
TimeDelta_minutes(m) == TimeDelta_seconds(m * SECS_PER_MINUTE)
TimeDelta_hours(h) == TimeDelta_seconds(h * SECS_PER_HOUR)
\* TimeDelta::nanoseconds: floor division into (secs, nanos)
TimeDelta_nanoseconds(n) == [secs |-> n \div NANOS_PER_SEC, nanos |-> n % NANOS_PER_SEC]
\* TimeDelta + TimeDelta
TimeDelta_add(a, b) ==
    LET n == a.nanos + b.nanos
    IN  IF n >= NANOS_PER_SEC
        THEN [secs |-> a.secs + b.secs + 1, nanos |-> n - NANOS_PER_SEC]
        ELSE [secs |-> a.secs + b.secs, nanos |-> n]

\* TimeDelta::MAX is i64::MAX milliseconds
TimeDelta_MAX == [secs |-> I64_MAX \div MillisPerSec,
                  nanos |-> (I64_MAX % MillisPerSec) * NanosPerMilli]

\* TimeDelta::num_seconds / subsec_nanos: truncated towards zero
num_seconds(d) == IF d.secs < 0 /\ d.nanos > 0 THEN d.secs + 1 ELSE d.secs
subsec_nanos(d) == IF d.secs < 0 /\ d.nanos > 0 THEN d.nanos - NANOS_PER_SEC ELSE d.nanos

\* TimeDelta::num_nanoseconds: checked_mul then checked_add in i64
num_nanoseconds(d) ==
    LET secs_part == num_seconds(d) * NANOS_PER_SEC
        total == secs_part + subsec_nanos(d)
    IN  IF secs_part > I64_MAX \/ secs_part < I64_MIN THEN None
        ELSE IF total > I64_MAX \/ total < I64_MIN THEN None
        ELSE Some(total)

----------------------------------------------------------------------------
(* The temporal codec and the tagged identifier *)

\* i32::decode / u32::decode / i64::decode: one cell, or UnexpectedEof
Prim_decode(from) ==
    IF from = <<>> THEN Err("UnexpectedEof")
    ELSE [ok |-> TRUE, val |-> Head(from), rest |-> Tail(from)]

\* faulty variant: seconds and nanoseconds written in the wrong order
encode_datetime_swapped(date) ==
    <<to_epoch_days(date.date), date.frac, date.secs>>

encode_datetime(date) ==
    <<to_epoch_days(date.date), date.secs, date.frac>>

\* faulty variant: the time-of-day is not validated
decode_datetime_unchecked(from) ==
    LET day == Prim_decode(from) IN
    IF ~ day.ok THEN day ELSE
    LET sec == Prim_decode(day.rest) IN
    IF ~ sec.ok THEN sec ELSE
    LET nano == Prim_decode(sec.rest) IN
    IF ~ nano.ok THEN nano ELSE
    LET date == from_epoch_days(day.val) IN
    IF ~ date.some THEN Err("InvalidData") ELSE
    [ok |-> TRUE, rest |-> nano.rest,
     val |-> DateTime(date.val, [secs |-> sec.val, frac |-> nano.val])]

decode_datetime(from) ==
    LET day == Prim_decode(from) IN
    IF ~ day.ok THEN day ELSE
    LET sec == Prim_decode(day.rest) IN
    IF ~ sec.ok THEN sec ELSE
    LET nano == Prim_decode(sec.rest) IN
    IF ~ nano.ok THEN nano ELSE
    LET date == from_epoch_days(day.val) IN
    IF ~ date.some THEN Err("InvalidData") ELSE
    LET time == from_num_seconds_from_midnight_opt(sec.val, nano.val) IN
    IF ~ time.some THEN Err("InvalidData") ELSE
    [ok |-> TRUE, rest |-> nano.rest, val |-> DateTime(date.val, time.val)]

\* the i64 a wrapping cast would produce
WrapI64(n) == ((n - I64_MIN) % (2 ^ I64Bits)) + I64_MIN

\* faulty variant: the nanosecond count is computed unchecked and wraps
encode_timedelta_wrapping(delta) ==
    [ok |-> TRUE, out |-> <<WrapI64(delta.secs * NANOS_PER_SEC + delta.nanos)>>]

\* Ok with the cells written, or the error and nothing written
encode_timedelta(delta) ==
    LET n == num_nanoseconds(delta) IN
    IF ~ n.some THEN [ok |-> FALSE, kind |-> "InvalidData", out |-> <<>>]
    ELSE [ok |-> TRUE, out |-> <<n.val>>]

decode_timedelta(from) ==
    LET n == Prim_decode(from) IN
    IF ~ n.ok THEN n
    ELSE [ok |-> TRUE, rest |-> n.rest, val |-> TimeDelta_nanoseconds(n.val)]

\* impl Encodable for ID<T>
ID_encode == BYTES

\* faulty variant: the identifier bytes are read but not compared
ID_decode_any(from) ==
    IF Len(from) < Len(BYTES) THEN Err("UnexpectedEof")
    ELSE [ok |-> TRUE, rest |-> SubSeq(from, Len(BYTES) + 1, Len(from))]

\* impl Decodable for ID<T>: read_exact, then compare
ID_decode(from) ==
    IF Len(from) < Len(BYTES) THEN Err("UnexpectedEof")
    ELSE IF SubSeq(from, 1, Len(BYTES)) # BYTES THEN Err("InvalidData")
    ELSE [ok |-> TRUE, rest |-> SubSeq(from, Len(BYTES) + 1, Len(from))]

----------------------------------------------------------------------------
(* RegularSchedule: #[derive(Binary)] with #[version] and #[since(0, 0, 2)] *)

Version_decode(from) ==
    IF Len(from) < 3 THEN Err("UnexpectedEof")
    ELSE [ok |-> TRUE, val |-> SubSeq(from, 1, 3), rest |-> SubSeq(from, 4, Len(from))]

\* Fields in declaration order; the result carries the cells written before
\* the first failing field.
RegularSchedule_encode(self) ==
    LET head == self.version
                \o (IF VersionGE(self.version, SINCE_ID) THEN ID_encode ELSE <<>>)
                \o encode_datetime(self.next)
        tail == encode_timedelta(self.interval)
    IN  IF tail.ok THEN [ok |-> TRUE, out |-> head \o tail.out]
        ELSE [ok |-> FALSE, kind |-> tail.kind, out |-> head]

RegularSchedule_decode(from) ==
    LET ver == Version_decode(from) IN
    IF ~ ver.ok THEN ver ELSE
    LET id == IF VersionGE(ver.val, SINCE_ID) THEN ID_decode(ver.rest)
              ELSE [ok |-> TRUE, rest |-> ver.rest] IN
    IF ~ id.ok THEN id ELSE
    LET next == decode_datetime(id.rest) IN
    IF ~ next.ok THEN next ELSE
    LET interval == decode_timedelta(next.rest) IN
    IF ~ interval.ok THEN interval ELSE
    Ok([version |-> ver.val, next |-> next.val, interval |-> interval.val])

create(start, every) == [version |-> LATEST, next |-> start, interval |-> every]

NoFile == <<-1>>

\* RegularSchedule::open: File::open, then decode.  The Version::ZERO passed
\* to decode is superseded by the #[version] field read from the stream.
open(content) ==
    IF content = NoFile THEN Err("NotFound") ELSE RegularSchedule_decode(content)

----------------------------------------------------------------------------
(* The duration grammar *)

Digits == <<"0", "1", "2", "3", "4", "5", "6", "7", "8", "9">>
IsDigit(c) == \E i \in 1..Len(Digits) : Digits[i] = c
DigitValue(c) == (CHOOSE i \in 1..Len(Digits) : Digits[i] = c) - 1

\* str::len counts UTF-8 bytes
Utf8Len(c) == IF c = "U+00E9" THEN 2 ELSE 1
RECURSIVE StrLen(_)
StrLen(s) == IF s = <<>> THEN 0 ELSE Utf8Len(Head(s)) + StrLen(Tail(s))

\* index of the first occurrence of the character, 0 when absent
RECURSIVE Find(_, _, _)
Find(s, c, i) ==
    IF i > Len(s) THEN 0 ELSE IF s[i] = c THEN i ELSE Find(s, c, i + 1)

try_split_once(all, delimiter) ==
    LET i == Find(all, delimiter, 1)
    IN  IF i = 0 THEN [first |-> all, rest |-> None]
        ELSE [first |-> SubSeq(all, 1, i - 1),
              rest |-> Some(SubSeq(all, i + 1, Len(all)))]

\* accumulate decimal digits with u8 overflow checking
RECURSIVE ParseDigits(_, _)
ParseDigits(s, acc) ==
    IF s = <<>> THEN Ok(acc)
    ELSE IF ~ IsDigit(Head(s)) THEN Err("format")
    ELSE LET n == acc * 10 + DigitValue(Head(s))
         IN  IF n > 255 THEN Err("format") ELSE ParseDigits(Tail(s), n)

\* str::parse::<u8>: an optional leading '+', then one or more digits
parse_u8(s) ==
    IF s = <<>> THEN Err("format")
    ELSE IF Head(s) \in {"+", "-"} /\ Len(s) = 1 THEN Err("format")
    ELSE IF Head(s) = "+" THEN ParseDigits(Tail(s), 0)
    ELSE ParseDigits(s, 0)

parse_timedelta(hhmmss) ==
    LET s1 == try_split_once(hhmmss, ":")
        hh == s1.first
        hours == parse_u8(hh)
    IN
    IF StrLen(hh) # 2 THEN Err("format") ELSE
    IF ~ hours.ok THEN hours ELSE
    IF hours.val > 23 THEN Err("bounds") ELSE
    LET d1 == TimeDelta_add(TimeDelta_zero, TimeDelta_hours(hours.val)) IN
    IF ~ s1.rest.some THEN Ok(d1) ELSE
    LET s2 == try_split_once(s1.rest.val, ":")
        mm == s2.first
        minutes == parse_u8(mm)
    IN
    IF StrLen(mm) # 2 THEN Err("format") ELSE
    IF ~ minutes.ok THEN minutes ELSE
    IF minutes.val > 59 THEN Err("bounds") ELSE
    LET d2 == TimeDelta_add(d1, TimeDelta_minutes(minutes.val)) IN
    IF ~ s2.rest.some THEN Ok(d2) ELSE
    LET ss == s2.rest.val
        seconds == parse_u8(ss)
    IN
    IF StrLen(ss) # 2 THEN Err("format") ELSE
    IF ~ seconds.ok THEN seconds ELSE
    IF seconds.val > 59 THEN Err("bounds") ELSE
    Ok(TimeDelta_add(d2, TimeDelta_seconds(seconds.val)))

----------------------------------------------------------------------------
(* Calls of the pure functions on enumerated arguments *)

FieldStrs ==
    { <<"0", "7">>, <<"2", "3">>, <<"2", "4">>, <<"5", "9">>, <<"6", "0">>,
      <<"7">>, <<"+", "7">>, <<"a", "b">>, <<>>, <<"0", "0", "7">>, <<"U+00E9">> }

RECURSIVE Joined(_)
\* the strings made of exactly n fields separated by ':'
Joined(n) ==
    IF n = 1 THEN FieldStrs
    ELSE { f \o <<":">> \o r : f \in FieldStrs, r \in Joined(n - 1) }

ParseInputs(max) == UNION { Joined(n) : n \in 1..max }

\* cells offered to decode_datetime
DayCells ==
    { -I32_MAX, to_epoch_days([year |-> MIN_YEAR, ordinal |-> 1]) - 1,
      to_epoch_days([year |-> MIN_YEAR, ordinal |-> 1]), -1, 0, 20759,
      to_epoch_days([year |-> MAX_YEAR, ordinal |-> 365]),
      to_epoch_days([year |-> MAX_YEAR, ordinal |-> 365]) + 1, I32_MAX }
SecCells ==
    { -1, 0, SECS_PER_MINUTE - 1, SECS_PER_MINUTE, SECS_PER_DAY - 1, SECS_PER_DAY }
NanoCells == -1 .. (2 * NANOS_PER_SEC)

SampleDates ==
    { [year |-> 1970, ordinal |-> 1], [year |-> 1969, ordinal |-> 365],
      [year |-> 2024, ordinal |-> 366], [year |-> 2026, ordinal |-> 306],
      [year |-> 2000, ordinal |-> 60], [year |-> 1900, ordinal |-> 365],
      [year |-> 0, ordinal |-> 1], [year |-> -1, ordinal |-> 365],
      [year |-> MIN_YEAR, ordinal |-> 1], [year |-> MAX_YEAR, ordinal |-> 365] }
SampleTimes ==
    { [secs |-> s, frac |-> f] :
        s \in {0, SECS_PER_MINUTE - 1, SECS_PER_HOUR, SECS_PER_DAY - 1},
        f \in 0 .. (2 * NANOS_PER_SEC - 1) }
\* the timestamps chrono can construct from those
SampleDateTimes ==
    { DateTime(d, t) : d \in SampleDates,
        t \in { x \in SampleTimes :
                  from_num_seconds_from_midnight_opt(x.secs, x.frac).some } }

\* durations around zero, around the i64 nanosecond limits and around
\* TimeDelta::MAX and TimeDelta::MIN
NsLimitSecs == I64_MAX \div NANOS_PER_SEC
SampleSecs ==
    UNION { {c - 2, c - 1, c, c + 1, c + 2} :
              c \in {0, NsLimitSecs, - NsLimitSecs, SECS_PER_DAY} }
    \cup { TimeDelta_MAX.secs - 1, TimeDelta_MAX.secs,
           - TimeDelta_MAX.secs, - TimeDelta_MAX.secs - 1 }
InTimeDeltaRange(d) ==
    LET hi == TimeDelta_MAX
        lo == [secs |-> - hi.secs - 1, nanos |-> NANOS_PER_SEC - hi.nanos]
    IN  /\ (d.secs < hi.secs \/ (d.secs = hi.secs /\ d.nanos <= hi.nanos))
        /\ (d.secs > lo.secs \/ (d.secs = lo.secs /\ d.nanos >= lo.nanos))
SampleDeltas ==
    { d \in [secs : SampleSecs, nanos : 0 .. (NANOS_PER_SEC - 1)] : InTimeDeltaRange(d) }

\* streams offered to RegularSchedule::open: a version, then a body
Versions == { <<0, 0, 0>>, <<0, 0, 1>>, <<0, 0, 2>>, <<0, 0, 3>>, <<0, 1, 0>>, <<1, 0, 0>> }
GoodFields == <<20759, SECS_PER_HOUR, 1, SECS_PER_HOUR * NANOS_PER_SEC>>
BadFields == <<20759, SECS_PER_DAY, 0, 1>>
OtherTag == <<114, 101, 103, 117, 108, 97, 114, 33>>
Bodies ==
    { BYTES \o GoodFields, OtherTag \o GoodFields, <<82>> \o Tail(BYTES) \o GoodFields,
      BYTES \o BadFields, OtherTag \o BadFields, GoodFields, GoodFields \o <<0, 0, 0, 0>>,
      BadFields \o <<0, 0, 0, 0>>, SubSeq(BYTES, 1, 5), BYTES \o <<20759>>, <<>> }
Streams == { v \o b : v \in Versions, b \in Bodies } \cup { <<>>, <<0, 0>> }

CodecInputs ==
    { [op |-> "open", arg |-> s] : s \in Streams } \cup
    { [op |-> "decode_datetime", arg |-> <<d, s, n>>] :
        d \in DayCells, s \in SecCells, n \in NanoCells }
    \cup { [op |-> "decode_datetime", arg |-> c] : c \in {<<>>, <<0>>, <<0, 0>>} }
    \cup { [op |-> "encode_datetime", arg |-> t] : t \in SampleDateTimes }
    \cup { [op |-> "encode_timedelta", arg |-> d] : d \in SampleDeltas }

Names == <<"a", "b">>
Slots == {1, 2}
NameSet == { Names[i] : i \in 1..Len(Names) }
NoRet == [act |-> "none"]
FsIdle ==
    /\ files = [n \in NameSet |-> NoFile]
    /\ pc = [p \in Slots |-> "idle"]
    /\ local = [p \in Slots |-> NotRun]
    /\ ret = NoRet
    /\ origin = [n \in NameSet |-> NotRun]
    /\ writes = [n \in NameSet |-> 0]
    /\ done = [p \in Slots |-> NotRun]
    /\ budget = [saves |-> 0, faulted |-> FALSE, cap |-> 0]
FsVars == <<files, pc, local, ret, origin, writes, done, budget>>
PureIdle == input = <<>> /\ parsed = NotRun /\ cin = NotRun /\ cout = NotRun

InitParse ==
    /\ input \in ParseInputs(MaxFields)
    /\ parsed = NotRun
    /\ cin = NotRun /\ cout = NotRun
    /\ FsIdle

CallParseTimedelta ==
    /\ parsed = NotRun
    /\ parsed' = [run |-> TRUE, res |-> parse_timedelta(input)]
    /\ UNCHANGED <<input, cin, cout, FsVars>>

NextParse == CallParseTimedelta
SpecParse == InitParse /\ [][NextParse]_vars

InitCodec ==
    /\ cin \in CodecInputs
    /\ cout = NotRun
    /\ input = <<>> /\ parsed = NotRun
    /\ FsIdle

CallDecodeDatetime ==
    /\ cout = NotRun /\ cin.op = "decode_datetime"
    /\ cout' = [run |-> TRUE, res |-> decode_datetime(cin.arg)]
    /\ UNCHANGED <<input, parsed, cin, FsVars>>

\* encode_datetime into an empty sink, then decode_datetime of what was written
CallEncodeDatetime ==
    /\ cout = NotRun /\ cin.op = "encode_datetime"
    /\ LET w == encode_datetime(cin.arg)
       IN  cout' = [run |-> TRUE, written |-> w, back |-> decode_datetime(w)]
    /\ UNCHANGED <<input, parsed, cin, FsVars>>

\* encode_timedelta into an empty sink, then decode_timedelta of what was written
CallEncodeTimedelta ==
    /\ cout = NotRun /\ cin.op = "encode_timedelta"
    /\ LET w == encode_timedelta(cin.arg)
       IN  cout' = [run |-> TRUE, res |-> w, back |-> decode_timedelta(w.out)]
    /\ UNCHANGED <<input, parsed, cin, FsVars>>

\* RegularSchedule::open of a file holding the stream
CallOpen ==
    /\ cout = NotRun /\ cin.op = "open"
    /\ cout' = [run |-> TRUE, res |-> open(cin.arg)]
    /\ UNCHANGED <<input, parsed, cin, FsVars>>

NextCodec == CallOpen \/ CallDecodeDatetime \/ CallEncodeDatetime \/ CallEncodeTimedelta
SpecCodec == InitCodec /\ [][NextCodec]_vars

----------------------------------------------------------------------------
(* DateTime<Utc> += TimeDelta *)

\* NaiveTime::overflowing_add_signed: the new time of day and the whole days
\* carried, in seconds
overflowing_add_signed(time, rhs) ==
    LET secs_to_add == num_seconds(rhs)
        frac_to_add == subsec_nanos(rhs)
        leap == time.frac >= NANOS_PER_SEC
        escapes_up == secs_to_add > 0
                      \/ (frac_to_add > 0 /\ time.frac >= 2 * NANOS_PER_SEC - frac_to_add)
    IN
    IF leap /\ ~ escapes_up /\ ~ (secs_to_add < 0)
    THEN [time |-> [secs |-> time.secs, frac |-> time.frac + frac_to_add], remaining |-> 0]
    ELSE
    LET secs0 == IF leap /\ ~ escapes_up THEN time.secs + 1 ELSE time.secs
        frac0 == IF leap THEN time.frac - NANOS_PER_SEC ELSE time.frac
        secs1 == secs0 + secs_to_add
        frac1 == frac0 + frac_to_add
        secs == IF frac1 < 0 THEN secs1 - 1
                ELSE IF frac1 >= NANOS_PER_SEC THEN secs1 + 1 ELSE secs1
        frac == IF frac1 < 0 THEN frac1 + NANOS_PER_SEC
                ELSE IF frac1 >= NANOS_PER_SEC THEN frac1 - NANOS_PER_SEC ELSE frac1
        secs_in_day == secs % SECS_PER_DAY
    IN  [time |-> [secs |-> secs_in_day, frac |-> frac], remaining |-> secs - secs_in_day]

\* NaiveDateTime::checked_add_signed; None is the overflow on which += panics
checked_add_signed(dt, rhs) ==
    LET t == overflowing_add_signed([secs |-> dt.secs, frac |-> dt.frac], rhs)
        date == from_num_days_from_ce_opt(
                    num_days_from_ce(dt.date) + (t.remaining \div SECS_PER_DAY))
    IN  IF date.some THEN Some(DateTime(date.val, t.time)) ELSE None

\* faulty variant: the advance adds the interval twice
advance_twice(schedule) ==
    LET once == checked_add_signed(schedule.next, schedule.interval)
        twice == IF once.some THEN checked_add_signed(once.val, schedule.interval) ELSE None
    IN  IF twice.some THEN Some([schedule EXCEPT !.next = twice.val]) ELSE None

\* schedule.next += schedule.interval
advance(schedule) ==
    LET n == checked_add_signed(schedule.next, schedule.interval)
    IN  IF n.some THEN Some([schedule EXCEPT !.next = n.val]) ELSE None

----------------------------------------------------------------------------
(* RegularSchedule::save and the actions of main *)

\* faulty variant: the record keeps the version it was loaded with
stamp_keep(self) == self

\* self.version = LATEST
stamp(self) == [self EXCEPT !.version = LATEST]

\* File::create truncates, then the fields are written one after the other.
\* `limit` is the number of cells the file system accepts before a write
\* fails; the result is the record in memory and the file left behind.
save(self, limit) ==
    LET stamped == stamp(self)
        enc == RegularSchedule_encode(stamped)
    IN  IF limit < Len(enc.out)
        THEN [ok |-> FALSE, kind |-> "Io", rec |-> stamped,
              file |-> SubSeq(enc.out, 1, limit)]
        ELSE IF ~ enc.ok
        THEN [ok |-> FALSE, kind |-> enc.kind, rec |-> stamped, file |-> enc.out]
        ELSE [ok |-> TRUE, rec |-> stamped, file |-> enc.out]

RecordCells == Len(LATEST) + Len(BYTES) + 4

\* a write fails right after File::create (0 cells in the file) or when the
\* interval is written (the timestamp is in the file); RecordCells means no failure
FaultPoints == {0, RecordCells - 1}
\* (one write failure per run at most)
Limits == IF budget.faulted THEN {RecordCells} ELSE FaultPoints \cup {RecordCells}
Spend(limit) ==
    [budget EXCEPT !.saves = @ + 1, !.faulted = @ \/ limit < RecordCells]

\* fs::read_dir: the entries present, in directory order
Entries(fs) == SelectSeq(Names, LAMBDA n : fs[n] # NoFile)

\* faulty variant: the first entry that fails to open ends the listing with its error
RECURSIVE ListFailFast(_, _, _)
ListFailFast(fs, entries, acc) ==
    IF entries = <<>> THEN acc
    ELSE IF ~ open(fs[Head(entries)]).ok
    THEN [acc EXCEPT !.ok = FALSE]
    ELSE ListFailFast(fs, Tail(entries),
                      [acc EXCEPT !.printed = Append(@, Head(entries))])
ListFrom_failfast(fs) ==
    ListFailFast(fs, Entries(fs), [ok |-> TRUE, printed |-> <<>>, reported |-> <<>>])

\* the loop of Action::List: `continue` after "unable to open"
RECURSIVE ListLoop(_, _, _)
ListLoop(fs, entries, acc) ==
    IF entries = <<>> THEN acc
    ELSE IF ~ open(fs[Head(entries)]).ok
    THEN ListLoop(fs, Tail(entries),
                  [acc EXCEPT !.reported = Append(@, Head(entries))])
    ELSE ListLoop(fs, Tail(entries),
                  [acc EXCEPT !.printed = Append(@, Head(entries))])
ListFrom(fs) ==
    ListLoop(fs, Entries(fs), [ok |-> TRUE, printed |-> <<>>, reported |-> <<>>])

\* values parse_datetime can return: an instant of the clock, or a midnight
Starts ==
    { [date |-> [year |-> 2026, ordinal |-> 306], secs |-> 0, frac |-> 0],
      [date |-> [year |-> 2026, ordinal |-> 365], secs |-> 23 * SECS_PER_HOUR,
       frac |-> NANOS_PER_SEC - 1] }
\* the <duration-expr> argument of New: "01", "23:59:59", "24"
EveryArgs ==
    { <<"0", "1">>, <<"2", "3", ":", "5", "9", ":", "5", "9">>, <<"2", "4">> }

\* saves made so far plus those the Steps in flight will make
Reserved == budget.saves + Cardinality({q \in Slots : pc[q] = "step_opened"})

Untouched == UNCHANGED <<input, parsed, cin, cout>>

List(p) ==
    /\ pc[p] = "idle"
    /\ LET r == ListFrom(files)
       IN  ret' = [act |-> "list", ok |-> r.ok, before |-> files,
                   printed |-> r.printed, reported |-> r.reported]
    /\ UNCHANGED <<files, pc, local, origin, writes, done, budget>>
    /\ Untouched

New(p, name, start, arg) ==
    /\ pc[p] = "idle"
    /\ Reserved < budget.cap
    /\ LET every == parse_timedelta(arg) IN
       IF ~ every.ok
       THEN /\ ret' = [act |-> "new", name |-> name, ok |-> FALSE,
                       kind |-> every.kind, before |-> files[name], saved |-> FALSE]
            /\ UNCHANGED <<files, origin, writes, budget>>
       ELSE \E limit \in Limits :
            LET s == save(create(start, every.val), limit) IN
            /\ files' = [files EXCEPT ![name] = s.file]
            /\ ret' = [act |-> "new", name |-> name, ok |-> s.ok,
                       kind |-> IF s.ok THEN "" ELSE s.kind,
                       before |-> files[name], saved |-> TRUE,
                       loaded |-> create(start, every.val), rec |-> s.rec]
            /\ origin' = [origin EXCEPT ![name] =
                            IF s.ok THEN [run |-> TRUE, start |-> start,
                                          every |-> every.val, k |-> 0]
                            ELSE NotRun]
            /\ writes' = [writes EXCEPT ![name] = @ + 1]
            /\ budget' = Spend(limit)
    /\ UNCHANGED <<pc, local, done>>
    /\ Untouched

\* Action::Step up to the println!: open, then next += interval
StepOpen(p, name) ==
    /\ pc[p] = "idle"
    /\ Reserved < budget.cap
    /\ LET o == open(files[name])
           a == IF o.ok THEN advance(o.val) ELSE None
       IN  IF o.ok /\ a.some
           THEN /\ pc' = [pc EXCEPT ![p] = "step_opened"]
                /\ local' = [local EXCEPT ![p] =
                               [run |-> TRUE, name |-> name, schedule |-> a.val,
                                loaded |-> o.val, seen |-> writes[name]]]
                /\ ret' = [act |-> "step_open", name |-> name,
                           ok |-> TRUE, before |-> files[name]]
           ELSE /\ ret' = [act |-> "step_open", name |-> name,
                           ok |-> FALSE, before |-> files[name],
                           kind |-> IF o.ok THEN "panic" ELSE o.kind]
                /\ UNCHANGED <<pc, local>>
    /\ UNCHANGED <<files, origin, writes, done, budget>>
    /\ Untouched

\* faulty variant: the save starts from the file as it is now, not as it was opened
StepSave_reread(p) ==
    /\ pc[p] = "step_opened"
    /\ LET name == local[p].name
           o == open(files[name])
           a == IF o.ok THEN advance(o.val) ELSE None
           s == save(IF a.some THEN a.val ELSE local[p].schedule, RecordCells)
       IN  /\ files' = [files EXCEPT ![name] = s.file]
           /\ ret' = [act |-> "step_save", name |-> name, ok |-> s.ok,
                      kind |-> "", before |-> files[name], saved |-> TRUE,
                      loaded |-> local[p].loaded, rec |-> s.rec]
           /\ origin' = [origin EXCEPT ![name] =
                           IF @.run THEN [@ EXCEPT !.k = @ + 1] ELSE @]
           /\ writes' = [writes EXCEPT ![name] = @ + 1]
           /\ done' = [done EXCEPT ![p] =
                         [run |-> TRUE, name |-> name, seen |-> local[p].seen,
                          loaded |-> local[p].loaded]]
           /\ budget' = Spend(RecordCells)
    /\ pc' = [pc EXCEPT ![p] = "idle"]
    /\ local' = [local EXCEPT ![p] = NotRun]
    /\ Untouched

\* Action::Step from schedule.save on
StepSave(p) ==
    /\ pc[p] = "step_opened"
    /\ \E limit \in Limits :
       LET name == local[p].name
           s == save(local[p].schedule, limit)
       IN  /\ files' = [files EXCEPT ![name] = s.file]
           /\ ret' = [act |-> "step_save", name |-> name, ok |-> s.ok,
                      kind |-> IF s.ok THEN "" ELSE s.kind,
                      before |-> files[name], saved |-> TRUE,
                      loaded |-> local[p].loaded, rec |-> s.rec]
           /\ origin' = [origin EXCEPT ![name] =
                           IF s.ok /\ @.run THEN [@ EXCEPT !.k = @ + 1] ELSE NotRun]
           /\ writes' = [writes EXCEPT ![name] = @ + 1]
           /\ done' = [done EXCEPT ![p] =
                         IF s.ok
                         THEN [run |-> TRUE, name |-> name, seen |-> local[p].seen,
                               loaded |-> local[p].loaded]
                         ELSE NotRun]
           /\ budget' = Spend(limit)
    /\ pc' = [pc EXCEPT ![p] = "idle"]
    /\ local' = [local EXCEPT ![p] = NotRun]
    /\ Untouched

\* Action::Next
NextTrigger(p, name) ==
    /\ pc[p] = "idle"
    /\ LET o == open(files[name])
       IN  ret' = [act |-> "next", name |-> name, ok |-> o.ok,
                   kind |-> IF o.ok THEN "" ELSE o.kind, before |-> files[name]]
    /\ UNCHANGED <<files, pc, local, origin, writes, done, budget>>
    /\ Untouched

----------------------------------------------------------------------------
(* The directory before the first invocation, and the specifications *)

Fields(day, secs, frac, ns) == <<day, secs, frac, ns>>
Today == to_epoch_days([year |-> 2026, ordinal |-> 306])
LastDay == to_epoch_days([year |-> MAX_YEAR, ordinal |-> 365])

\* written by version 0.0.1: no identifier
OldRecord == <<0, 0, 1>> \o Fields(Today, SECS_PER_HOUR, 1, SECS_PER_HOUR * NANOS_PER_SEC)
\* an unrelated file with the right length
BadTagFile == LATEST \o OtherTag \o Fields(Today, 0, 0, NANOS_PER_SEC)
\* a leap second and an interval below one second
LeapRecord == LATEST \o BYTES \o Fields(Today, SECS_PER_DAY - 1, NANOS_PER_SEC + 1, 1)
\* the last representable day, with a negative trailing interval
LastDayRecord ==
    LATEST \o BYTES \o Fields(LastDay, 23 * SECS_PER_HOUR, 0, 2 * SECS_PER_HOUR * NANOS_PER_SEC)
\* as New writes it
PlainRecord == LATEST \o BYTES \o Fields(Today, 0, 0, SECS_PER_HOUR * NANOS_PER_SEC)
BackwardRecord == LATEST \o BYTES \o Fields(0, 0, 0, -1)

InitContents == { NoFile, OldRecord, BadTagFile, LeapRecord, LastDayRecord }
InitContentsLater == { NoFile, OldRecord, BackwardRecord }
InitContentsConc == { NoFile, PlainRecord }

InitFsWith(first, later, cap) ==
    /\ files \in { f \in [NameSet -> first \cup later] :
                     /\ f[Names[1]] \in first
                     /\ \A i \in 2..Len(Names) : f[Names[i]] \in later }
    /\ pc = [p \in Slots |-> "idle"]
    /\ local = [p \in Slots |-> NotRun]
    /\ ret = NoRet
    /\ origin = [n \in NameSet |-> NotRun]
    /\ writes = [n \in NameSet |-> 0]
    /\ done = [p \in Slots |-> NotRun]
    /\ budget = [saves |-> 0, faulted |-> FALSE, cap |-> cap]
    /\ PureIdle

Invoke(p) ==
    \/ List(p)
    \/ \E name \in NameSet, start \in Starts, arg \in EveryArgs : New(p, name, start, arg)
    \/ \E name \in NameSet : StepOpen(p, name)
    \/ StepSave(p)
    \/ \E name \in NameSet : NextTrigger(p, name)

\* one invocation of the tool at a time
Next == Invoke(1)
Spec == InitFsWith(InitContents, InitContentsLater, MaxSaves) /\ [][Next]_vars

\* invocations of the tool running side by side
NextConc == \E p \in Slots : Invoke(p)
SpecConc == InitFsWith(InitContentsConc, InitContentsConc, MaxSavesConc) /\ [][NextConc]_vars

----------------------------------------------------------------------------
(* Properties *)

\* the instant of a timestamp as (epoch day, second of day, fraction), and
\* that instant moved by k intervals in plain arithmetic
Instant(dt) == [day |-> to_epoch_days(dt.date), secs |-> dt.secs, frac |-> dt.frac]
Shift(i, delta, k) ==
    LET n == i.frac + k * delta.nanos
        s == i.secs + k * delta.secs + (n \div NANOS_PER_SEC)
    IN  [day |-> i.day + (s \div SECS_PER_DAY), secs |-> s % SECS_PER_DAY,
         frac |-> n % NANOS_PER_SEC]

Saved == ret.act \in {"new", "step_save"} /\ ret.saved
TagPosition(stream) == SubSeq(stream, Len(LATEST) + 1, Len(LATEST) + Len(BYTES))
HasTagPosition(stream) == Len(stream) >= Len(LATEST) + Len(BYTES)
Opened == cout.run /\ cin.op = "open"

\* C1 as stated: whatever the version, a stream whose 8 bytes in the tag
\* position differ from "regular " never opens: open fails with InvalidData.
C1_TagAlwaysValidated ==
    (Opened /\ HasTagPosition(cin.arg) /\ TagPosition(cin.arg) # BYTES)
        => (~ cout.res.ok /\ cout.res.kind = "InvalidData")

\* C1 amended: when the version read from the stream is at least 0.0.2, a
\* stream whose 8 bytes after the version differ from "regular " fails with
\* InvalidData; when the version is older, no identifier is read and the
\* timestamp and interval are decoded right after the version.
C1_TagValidatedSince002 ==
    /\ (Opened /\ HasTagPosition(cin.arg) /\ TagPosition(cin.arg) # BYTES
          /\ VersionGE(SubSeq(cin.arg, 1, 3), SINCE_ID))
         => (~ cout.res.ok /\ cout.res.kind = "InvalidData")
    /\ (Opened /\ Len(cin.arg) >= 3 /\ ~ VersionGE(SubSeq(cin.arg, 1, 3), SINCE_ID))
         => LET next == decode_datetime(SubSeq(cin.arg, 4, Len(cin.arg)))
            IN  cout.res.ok <=> (next.ok /\ decode_timedelta(next.rest).ok)

\* a current-version stream with a foreign tag and otherwise valid fields was refused
C1_Witness ==
    /\ Opened /\ HasTagPosition(cin.arg) /\ TagPosition(cin.arg) # BYTES
    /\ SubSeq(cin.arg, 1, 3) = LATEST
    /\ decode_datetime(SubSeq(cin.arg, Len(LATEST) + Len(BYTES) + 1, Len(cin.arg))).ok
    /\ ~ cout.res.ok

\* C2: a schedule created by New with start T and interval I and stepped k
\* times opens as next = T + k*I, interval = I; a successful Step moves the
\* stored next by one interval and keeps the interval; Next and List leave
\* the files as they were; a saved record reopens equal to the one in memory.
C2_PersistedIsStartPlusSteps ==
    /\ \A n \in NameSet :
         origin[n].run =>
           LET o == open(files[n])
           IN  /\ o.ok
               /\ o.val.interval = origin[n].every
               /\ Instant(o.val.next)
                    = Shift(Instant(origin[n].start), origin[n].every, origin[n].k)
    /\ (ret.act = "step_save" /\ ret.ok /\ ret.loaded.next.frac < NANOS_PER_SEC) =>
           LET o == open(files[ret.name])
           IN  /\ o.ok
               /\ o.val.interval = ret.loaded.interval
               /\ Instant(o.val.next)
                    = Shift(Instant(ret.loaded.next), ret.loaded.interval, 1)
    /\ ret.act = "list" => files = ret.before
    /\ ret.act = "next" => files[ret.name] = ret.before
    /\ (Saved /\ ret.ok) => open(files[ret.name]) = Ok(ret.rec)

\* New and two Steps later the schedule has crossed into the next year
C2_Witness ==
    \E n \in NameSet :
        /\ origin[n].run /\ origin[n].k = 2
        /\ origin[n].every.secs > SECS_PER_HOUR
        /\ open(files[n]).val.next.date.year = 2027

\* C3: after a successful save the record in memory and the file both carry
\* LATEST, whatever version the record was loaded with.
C3_SaveStampsLatest ==
    (Saved /\ ret.ok) =>
        /\ ret.rec.version = LATEST
        /\ Version_decode(files[ret.name]) .ok
        /\ Version_decode(files[ret.name]).val = LATEST

\* a record loaded from a version 0.0.1 file was saved
C3_Witness ==
    /\ ret.act = "step_save" /\ ret.ok
    /\ ret.loaded.version = <<0, 0, 1>>
    /\ ret.before = OldRecord

\* the ':'-separated fields of a string
RECURSIVE SplitAll(_)
SplitAll(str) ==
    LET i == Find(str, ":", 1)
    IN  IF i = 0 THEN <<str>>
        ELSE <<SubSeq(str, 1, i - 1)>> \o SplitAll(SubSeq(str, i + 1, Len(str)))
IsTwoDigits(f) == Len(f) = 2 /\ IsDigit(f[1]) /\ IsDigit(f[2])
TwoDigitValue(f) == 10 * DigitValue(f[1]) + DigitValue(f[2])
FieldLimit(i) == IF i = 1 THEN 23 ELSE 59
WellFormed(fs) == Len(fs) \in 1..3 /\ \A i \in 1..Len(fs) : IsTwoDigits(fs[i])
InGrammar(fs) == WellFormed(fs) /\ \A i \in 1..Len(fs) : TwoDigitValue(fs[i]) <= FieldLimit(i)
GrammarSeconds(fs) ==
    TwoDigitValue(fs[1]) * SECS_PER_HOUR
    + (IF Len(fs) >= 2 THEN TwoDigitValue(fs[2]) * SECS_PER_MINUTE ELSE 0)
    + (IF Len(fs) >= 3 THEN TwoDigitValue(fs[3]) ELSE 0)

\* C4: parse_timedelta succeeds exactly on HH[:MM[:SS]] with two decimal
\* digits per field, hours <= 23, minutes and seconds <= 59, and returns
\* HH hours + MM minutes + SS seconds; a field that is not exactly two digits
\* gives a format error whichever field it is, and two-digit fields with one
\* out of range give a bounds error.
C4_ParseExactGrammar ==
    parsed.run =>
        LET fs == SplitAll(input)
            r == parsed.res
        IN  /\ r.ok <=> InGrammar(fs)
            /\ r.ok => r.val = [secs |-> GrammarSeconds(fs), nanos |-> 0]
            /\ (\E i \in 1..Len(fs) : ~ IsTwoDigits(fs[i])) => (~ r.ok /\ r.kind = "format")
            /\ (WellFormed(fs) /\ ~ InGrammar(fs)) => (~ r.ok /\ r.kind = "bounds")

DecodedDatetime == cout.run /\ cin.op = "decode_datetime" /\ Len(cin.arg) = 3
DayRepresentable(d) ==
    /\ d >= to_epoch_days([year |-> MIN_YEAR, ordinal |-> 1])
    /\ d <= to_epoch_days([year |-> MAX_YEAR, ordinal |-> DaysInYear(MAX_YEAR)])

\* C5 as stated: decode_datetime returns a timestamp only for a representable
\* day, seconds in [0, 86399] and nanoseconds in [0, 999_999_999], and fails
\* with InvalidData otherwise.
C5_DecodeDatetimeStrict ==
    DecodedDatetime =>
        LET valid == /\ DayRepresentable(cin.arg[1])
                     /\ cin.arg[2] \in 0 .. (SECS_PER_DAY - 1)
                     /\ cin.arg[3] \in 0 .. (NANOS_PER_SEC - 1)
        IN  /\ cout.res.ok <=> valid
            /\ ~ cout.res.ok => cout.res.kind = "InvalidData"

\* C5 amended: decode_datetime returns a timestamp exactly when the day is
\* representable, seconds are in [0, 86399] and nanoseconds are either below
\* one second or, when the second is the last of its minute, below two
\* seconds (chrono's leap second); otherwise it fails with InvalidData.  The
\* timestamp returned has exactly the decoded day, seconds and nanoseconds.
C5_DecodeDatetimeValidates ==
    DecodedDatetime =>
        LET valid == /\ DayRepresentable(cin.arg[1])
                     /\ cin.arg[2] \in 0 .. (SECS_PER_DAY - 1)
                     /\ \/ cin.arg[3] \in 0 .. (NANOS_PER_SEC - 1)
                        \/ /\ cin.arg[3] \in NANOS_PER_SEC .. (2 * NANOS_PER_SEC - 1)
                           /\ cin.arg[2] % SECS_PER_MINUTE = SECS_PER_MINUTE - 1
        IN  /\ cout.res.ok <=> valid
            /\ ~ cout.res.ok => cout.res.kind = "InvalidData"
            /\ cout.res.ok => Instant(cout.res.val)
                                = [day |-> cin.arg[1], secs |-> cin.arg[2], frac |-> cin.arg[3]]

\* a leap-second triple on the first representable day was decoded
C5_Witness ==
    /\ DecodedDatetime /\ cout.res.ok
    /\ cin.arg[3] >= NANOS_PER_SEC
    /\ cout.res.val.date = [year |-> MIN_YEAR, ordinal |-> 1]

\* C6: encode_datetime writes day, seconds, nanoseconds in that order and
\* decode_datetime of what was written returns the identical timestamp.
C6_DatetimeRoundTrip ==
    (cout.run /\ cin.op = "encode_datetime") =>
        /\ Len(cout.written) = 3
        /\ from_epoch_days(cout.written[1]) = Some(cin.arg.date)
        /\ cout.written[2] = cin.arg.secs
        /\ cout.written[3] = cin.arg.frac
        /\ cout.back.ok
        /\ cout.back.val = cin.arg
        /\ cout.back.rest = <<>>

\* a timestamp before the epoch, in a leap second, came back unchanged
C6_Witness ==
    /\ cout.run /\ cin.op = "encode_datetime"
    /\ cin.arg.date.year < 1970 /\ cin.arg.frac > NANOS_PER_SEC
    /\ cout.written[1] < 0
    /\ cout.back.ok /\ cout.back.val = cin.arg

\* C7: encode_timedelta succeeds exactly when the duration's nanosecond count
\* fits in the i64, decode_timedelta then returns the identical duration, and
\* a duration that does not fit fails with InvalidData and writes nothing.
C7_TimedeltaNeverTruncates ==
    (cout.run /\ cin.op = "encode_timedelta") =>
        LET total == cin.arg.secs * NANOS_PER_SEC + cin.arg.nanos
            fits == total >= I64_MIN /\ total <= I64_MAX
        IN  /\ cout.res.ok <=> fits
            /\ fits => (cout.res.out = <<total>> /\ cout.back.ok /\ cout.back.val = cin.arg)
            /\ ~ fits => (~ cout.res.ok /\ cout.res.kind = "InvalidData" /\ cout.res.out = <<>>)

\* a negative duration one nanosecond beyond the i64 range was refused
C7_Witness ==
    /\ cout.run /\ cin.op = "encode_timedelta"
    /\ cin.arg.secs * NANOS_PER_SEC + cin.arg.nanos = I64_MIN - 1
    /\ ~ cout.res.ok

\* C8: List prints every entry that opens, reports and skips every entry that
\* does not, and ends successfully whatever the directory holds.
C8_ListIsolatesFailures ==
    ret.act = "list" =>
        /\ ret.ok
        /\ ret.printed = SelectSeq(Entries(ret.before), LAMBDA n : open(ret.before[n]).ok)
        /\ ret.reported = SelectSeq(Entries(ret.before), LAMBDA n : ~ open(ret.before[n]).ok)

\* the first entry failed to open and the entry after it was printed
C8_Witness ==
    /\ ret.act = "list"
    /\ ret.reported = <<Names[1]>>
    /\ ret.printed = <<Names[2]>>

\* C9: after save returns, with or without an error, the file holds a
\* complete record or exactly what it held before the call.
C9_SaveNeverLeavesPartialFile ==
    Saved =>
        \/ files[ret.name] = ret.before
        \/ (Len(files[ret.name]) = RecordCells /\ open(files[ret.name]).ok)

\* C10: when two Steps on the same file have both opened it before either
\* saved, and both have completed successfully, the stored next is one
\* interval after the value they opened, not two.
C10_ConcurrentStepsLoseUpdate ==
    \A p, q \in Slots :
        ( /\ p # q /\ done[p].run /\ done[q].run
          /\ done[p].name = done[q].name
          /\ done[p].seen = done[q].seen
          /\ writes[done[p].name] = done[p].seen + 2 )
        => LET o == open(files[done[p].name])
           IN  /\ o.ok
               /\ done[p].loaded = done[q].loaded
               /\ o.val.interval = done[p].loaded.interval
               /\ Instant(o.val.next)
                    = Shift(Instant(done[p].loaded.next), done[p].loaded.interval, 1)

\* both Steps succeeded on a schedule with a non-zero interval and the file
\* is short of two intervals
C10_Witness ==
    \E p, q \in Slots :
        /\ p # q /\ done[p].run /\ done[q].run
        /\ done[p].name = done[q].name
        /\ done[p].seen = done[q].seen
        /\ writes[done[p].name] = done[p].seen + 2
        /\ done[p].loaded.interval # TimeDelta_zero
        /\ Instant(open(files[done[p].name]).val.next)
             # Shift(Instant(done[p].loaded.next), done[p].loaded.interval, 2)

====
